---- MODULE Spec2Model ----
(***************************************************************************)
(* Model of backend/docstrange_service.py: the command-line entry point,   *)
(* the extraction adapter (PharmaDataExtractor.extract_pharmaceutical_data *)
(* and its helpers) and the pharma line parser.                            *)
(*                                                                         *)
(* Text is a sequence of one-character strings, so that strip, split,      *)
(* upper, substring search and the three regular expressions are computed  *)
(* character by character, as Python computes them.                        *)
(***************************************************************************)
EXTENDS Integers, Sequences, FiniteSets, TLC

\* ------------------------------------------------------------------------
\* Bounds of the model
\* ------------------------------------------------------------------------

\* Most numeric tokens in a generated number string (SpecItem).
MaxNums == 8

\* Longest list of matched items handed to the deduplication (SpecDedup).
MaxItems == 52

\* Longest list of arbitrary items handed to the deduplication (SpecDedup).
MaxSmall == 3

\* ------------------------------------------------------------------------
\* Characters and Python's str methods
\* ------------------------------------------------------------------------

UpperSeq ==
    << "A", "B", "C", "D", "E", "F", "G", "H", "I", "J", "K", "L", "M",
       "N", "O", "P", "Q", "R", "S", "T", "U", "V", "W", "X", "Y", "Z" >>

LowerSeq ==
    << "a", "b", "c", "d", "e", "f", "g", "h", "i", "j", "k", "l", "m",
       "n", "o", "p", "q", "r", "s", "t", "u", "v", "w", "x", "y", "z" >>

DigitSeq == << "0", "1", "2", "3", "4", "5", "6", "7", "8", "9" >>

Range(f) == { f[i] : i \in DOMAIN f }

\* [A-Z]
IsUpper(c) == c \in Range(UpperSeq)

\* [a-z]
IsLower(c) == c \in Range(LowerSeq)

\* \d
IsDigit(c) == c \in Range(DigitSeq)

\* \s, and the characters str.strip() removes
IsSpace(c) == c \in { " ", "\t", "\n", "\r", "\f" }

\* [A-Z\s\d\-\.\(\)\/], the character class of the name group
IsNameChar(c) ==
    IsUpper(c) \/ IsSpace(c) \/ IsDigit(c) \/ c \in { "-", ".", "(", ")", "/" }

\* int() of one digit character
DigitVal(c) == (CHOOSE i \in DOMAIN DigitSeq : DigitSeq[i] = c) - 1

\* str.upper() on one character
UpperChar(c) ==
    IF IsLower(c)
    THEN UpperSeq[CHOOSE i \in DOMAIN LowerSeq : LowerSeq[i] = c]
    ELSE c

\* str.upper()
Upper(s) == [ i \in DOMAIN s |-> UpperChar(s[i]) ]

\* str.lower()
LowerChar(c) ==
    IF IsUpper(c)
    THEN LowerSeq[CHOOSE i \in DOMAIN UpperSeq : UpperSeq[i] = c]
    ELSE c

Lower(s) == [ i \in DOMAIN s |-> LowerChar(s[i]) ]

\* str.strip(): drops leading and trailing whitespace
Strip(s) ==
    LET keep == { i \in DOMAIN s : ~IsSpace(s[i]) }
    IN  IF keep = {} THEN << >>
        ELSE LET lo == CHOOSE i \in keep : \A j \in keep : i <= j
                 hi == CHOOSE i \in keep : \A j \in keep : i >= j
             IN  SubSeq(s, lo, hi)

\* text.split('\n'): the lines of text, the empty ones included
RECURSIVE SplitFrom(_, _, _)
SplitFrom(text, i, cur) ==
    IF i > Len(text) THEN << cur >>
    ELSE IF text[i] = "\n" THEN << cur >> \o SplitFrom(text, i + 1, << >>)
    ELSE SplitFrom(text, i + 1, Append(cur, text[i]))

SplitLines(text) == SplitFrom(text, 1, << >>)

\* header in line: substring test
Contains(s, sub) ==
    \E i \in 1..(Len(s) - Len(sub) + 1) : SubSeq(s, i, i + Len(sub) - 1) = sub

\* '\n'.join(lines)
RECURSIVE JoinWith(_, _)
JoinWith(parts, sep) ==
    IF Len(parts) = 0 THEN << >>
    ELSE IF Len(parts) = 1 THEN parts[1]
    ELSE parts[1] \o sep \o JoinWith(Tail(parts), sep)

\* ------------------------------------------------------------------------
\* The regular expressions of _extract_pharma_item
\* ------------------------------------------------------------------------

\* A group that did not take part in the match (Python's None). No group
\* of the three patterns can match the empty string, and "if g" treats
\* both alike.
None == << >>

\* \s* from position i: the first position that holds no whitespace
RECURSIVE SkipSpace(_, _)
SkipSpace(s, i) ==
    IF i <= Len(s) /\ IsSpace(s[i]) THEN SkipSpace(s, i + 1) ELSE i

\* \d* from position i
RECURSIVE SkipDigits(_, _)
SkipDigits(s, i) ==
    IF i <= Len(s) /\ IsDigit(s[i]) THEN SkipDigits(s, i + 1) ELSE i

\* \d+(?:\.\d+)? at position i: the position after the number, 0 when there
\* is none. The match is greedy; giving characters back never helps what
\* follows, which needs whitespace or nothing.
NumEnd(s, i) ==
    IF i > Len(s) \/ ~IsDigit(s[i]) THEN 0
    ELSE LET j == SkipDigits(s, i)
         IN  IF j + 1 <= Len(s) /\ s[j] = "." /\ IsDigit(s[j + 1])
             THEN SkipDigits(s, j + 1)
             ELSE j

\* (?:\s+(\d+(?:\.\d+)?)){k} from position i
RECURSIVE NumFields(_, _, _, _)
NumFields(s, i, k, acc) ==
    IF k = 0 THEN [ ok |-> TRUE, pos |-> i, nums |-> acc ]
    ELSE LET j == SkipSpace(s, i)
             e == NumEnd(s, j)
         IN  IF j = i \/ e = 0
             THEN [ ok |-> FALSE, pos |-> i, nums |-> acc ]
             ELSE NumFields(s, e, k - 1, Append(acc, SubSeq(s, j, e - 1)))

\* ([A-Z][A-Z\s\d\-\.\(\)\/]{3,50}) can end at position n
NameGroupOK(s, n) ==
    /\ n >= 4
    /\ n <= 51
    /\ n <= Len(s)
    /\ IsUpper(s[1])
    /\ \A j \in 2..n : IsNameChar(s[j])

\* The greedy group takes the longest name with which the rest matches.
Longest(S) == CHOOSE n \in S : \A m \in S : m <= n

NoMatch == [ ok |-> FALSE, groups |-> << >> ]

\* Pattern 1: name, six numbers and an optional seventh, whitespace between
MatchPattern1(s) ==
    LET ends == { n \in 4..51 : NameGroupOK(s, n) /\ NumFields(s, n + 1, 6, << >>).ok }
    IN  IF ends = {} THEN NoMatch
        ELSE LET n     == Longest(ends)
                 six   == NumFields(s, n + 1, 6, << >>)
                 seven == NumFields(s, six.pos, 1, << >>)
             IN  [ ok     |-> TRUE,
                   groups |-> << SubSeq(s, 1, n) >> \o six.nums
                              \o << IF seven.ok THEN seven.nums[1] ELSE None >> ]

\* Pattern 2: name, \s{2,}, then ([\d\s\.]+) up to the end
MatchPattern2(s) ==
    LET rest(n) == \A j \in (n + 3)..Len(s) : IsDigit(s[j]) \/ IsSpace(s[j]) \/ s[j] = "."
        ends == { n \in 4..51 :
                    /\ NameGroupOK(s, n)
                    /\ n + 3 <= Len(s)
                    /\ IsSpace(s[n + 1])
                    /\ IsSpace(s[n + 2])
                    /\ rest(n) }
    IN  IF ends = {} THEN NoMatch
        ELSE LET n == Longest(ends)
                 g == SkipSpace(s, n + 1)
                 \* \s{2,} is greedy and gives back one character only when
                 \* nothing else is left for the second group
                 b == IF g > Len(s) THEN Len(s) ELSE g
             IN  [ ok     |-> TRUE,
                   groups |-> << SubSeq(s, 1, n), SubSeq(s, b, Len(s)) >> ]

\* \t* from position i
RECURSIVE SkipTabs(_, _)
SkipTabs(s, i) ==
    IF i <= Len(s) /\ s[i] = "\t" THEN SkipTabs(s, i + 1) ELSE i

\* Pattern 3: name, \t+, then ([\d\t\.]+) up to the end
MatchPattern3(s) ==
    LET rest(n) == \A j \in (n + 2)..Len(s) : IsDigit(s[j]) \/ s[j] = "\t" \/ s[j] = "."
        ends == { n \in 4..51 :
                    /\ NameGroupOK(s, n)
                    /\ n + 2 <= Len(s)
                    /\ s[n + 1] = "\t"
                    /\ rest(n) }
    IN  IF ends = {} THEN NoMatch
        ELSE LET n == Longest(ends)
                 g == SkipTabs(s, n + 1)
                 b == IF g > Len(s) THEN Len(s) ELSE g
             IN  [ ok     |-> TRUE,
                   groups |-> << SubSeq(s, 1, n), SubSeq(s, b, Len(s)) >> ]

\* re.match(patterns[k], line.strip())
MatchPattern(k, line) ==
    LET s == Strip(line)
    IN  CASE k = 1 -> MatchPattern1(s)
          [] k = 2 -> MatchPattern2(s)
          [] k = 3 -> MatchPattern3(s)

\* ------------------------------------------------------------------------
\* Numbers: float(), int(), round(.., 2)
\* ------------------------------------------------------------------------

\* A float is held in thousandths, which is exact for the numerals of the
\* model (no more than three digits after the point).
Thousand == 10 * 10 * 10

RECURSIVE DigitsValue(_)
DigitsValue(ds) ==
    IF Len(ds) = 0 THEN 0
    ELSE 10 * DigitsValue(SubSeq(ds, 1, Len(ds) - 1)) + DigitVal(ds[Len(ds)])

\* float(g) for g matching \d+(?:\.\d+)?
FloatOf(g) ==
    LET dots == { i \in DOMAIN g : g[i] = "." }
    IN  IF dots = {} THEN Thousand * DigitsValue(g)
        ELSE LET d    == CHOOSE i \in dots : TRUE
                 frac == SubSeq(SubSeq(g, d + 1, Len(g)) \o << "0", "0", "0" >>, 1, 3)
             IN  Thousand * DigitsValue(SubSeq(g, 1, d - 1)) + DigitsValue(frac)

\* int(x): truncation toward zero of a non-negative float
IntOf(v) == v \div Thousand

\* The halves x.xx5 whose nearest double lies above the decimal value, or is
\* the decimal value with an odd hundredths digit: round(x, 2) rounds the
\* double it is given, so these go up and the other halves go down.
\* (Python: round(0.005, 2) = 0.01, round(0.375, 2) = 0.38,
\*  round(0.125, 2) = 0.12, round(2.675, 2) = 2.67.)
HalvesRoundedUp == { 5, 375 }

\* round(x, 2), in hundredths
Round2(v) ==
    IF v % 10 < 5 THEN v \div 10
    ELSE IF v % 10 > 5 THEN v \div 10 + 1
    ELSE IF v \in HalvesRoundedUp THEN v \div 10 + 1
    ELSE v \div 10

\* re.findall(r'\d+(?:\.\d+)?', number_str)
RECURSIVE FindAllNumbers(_, _)
FindAllNumbers(s, i) ==
    IF i > Len(s) THEN << >>
    ELSE LET e == NumEnd(s, i)
         IN  IF e = 0 THEN FindAllNumbers(s, i + 1)
             ELSE << SubSeq(s, i, e - 1) >> \o FindAllNumbers(s, e)

\* while len(numbers) < 7: numbers.append(0)
PadNumbers(numbers) ==
    [ i \in 1..(IF Len(numbers) < 7 THEN 7 ELSE Len(numbers)) |->
        IF i <= Len(numbers) THEN numbers[i] ELSE 0 ]

\* The numbers of a match: the seven groups of pattern 1, or every number
\* found in the second group of patterns 2 and 3.
NumbersOf(groups) ==
    PadNumbers(
        IF Len(groups) >= 7
        THEN [ i \in 1..(Len(groups) - 1) |->
                 IF groups[i + 1] # None THEN FloatOf(groups[i + 1]) ELSE 0 ]
        ELSE LET number_str == IF Len(groups) > 1 THEN groups[2] ELSE << >>
                 found      == FindAllNumbers(number_str, 1)
             IN  [ i \in DOMAIN found |-> FloatOf(found[i]) ])

\* int(n) if n else None: an absent field is << >>, a present one << value >>
QtyField(n) == IF n # 0 THEN << IntOf(n) >> ELSE None

\* (a value field that cuts the third decimal off instead of rounding)
ValueFieldCut(n) == IF n # 0 THEN << n \div 10 >> ELSE None

\* round(n, 2) if n else None, the value in hundredths
ValueField(n) == IF n # 0 THEN << Round2(n) >> ELSE None

\* The item dictionary built from a match
BuildItem(groups) ==
    LET numbers == NumbersOf(groups)
    IN  [ itemName     |-> Strip(groups[1]),
          openingQty   |-> QtyField(numbers[1]),
          purchaseQty  |-> QtyField(numbers[2]),
          purchaseFree |-> QtyField(numbers[3]),
          salesQty     |-> QtyField(numbers[4]),
          salesValue   |-> ValueField(numbers[5]),
          closingQty   |-> QtyField(numbers[6]),
          closingValue |-> ValueField(numbers[7]) ]

\* ------------------------------------------------------------------------
\* Name validation and the item of a line
\* ------------------------------------------------------------------------

\* Whether the module's global namespace binds the name re. The module
\* imports sys, json, os, traceback, logging, pathlib and typing; re is
\* imported inside _extract_pharma_item only, which binds a local there.
ReIsGlobal == FALSE

\* ^\d+\.?\d*$ against name.strip()
OnlyANumber(s) ==
    /\ Len(s) >= 1
    /\ IsDigit(s[1])
    /\ LET j == SkipDigits(s, 1)
           k == IF j <= Len(s) /\ s[j] = "." THEN j + 1 ELSE j
       IN  SkipDigits(s, k) > Len(s)

\* [^A-Za-z0-9\s\-\.\(\)\/]
IsSpecialChar(c) ==
    ~(IsUpper(c) \/ IsLower(c) \/ IsDigit(c) \/ IsSpace(c)
        \/ c \in { "-", ".", "(", ")", "/" })

\* _is_valid_medicine_name(name): "True", "False", or "NameError" when the
\* lookup of the global re fails at its first use.
IsValidMedicineName(name, re_is_global) ==
    IF Len(name) < 3 \/ Len(name) > 60 THEN "False"
    ELSE IF ~re_is_global THEN "NameError"
    ELSE IF ~(\E i \in DOMAIN name : IsUpper(name[i]) \/ IsLower(name[i])) THEN "False"
    ELSE IF OnlyANumber(Strip(name)) THEN "False"
    ELSE IF 10 * Cardinality({ i \in DOMAIN name : IsSpecialChar(name[i]) }) > 3 * Len(name)
         THEN "False"
    ELSE "True"

NoItem == [ itemName |-> << >>, openingQty |-> None, purchaseQty |-> None,
            purchaseFree |-> None, salesQty |-> None, salesValue |-> None,
            closingQty |-> None, closingValue |-> None ]

\* for pattern in patterns: ... from the k-th pattern on. kind is "item"
\* (an item is returned), "none" (None is returned) or "raise" (the
\* exception of the validation leaves the function); item_name is the
\* local of that name when the function is left.
RECURSIVE TryPatterns(_, _, _, _)
TryPatterns(line, k, last_name, re_is_global) ==
    IF k > 3 THEN [ kind |-> "none", item_name |-> last_name, item |-> NoItem ]
    ELSE LET m == MatchPattern(k, line)
         IN  IF ~m.ok THEN TryPatterns(line, k + 1, last_name, re_is_global)
             ELSE LET item_name == Strip(m.groups[1])
                      valid     == IsValidMedicineName(item_name, re_is_global)
                  IN  CASE valid = "NameError" ->
                             [ kind |-> "raise", item_name |-> item_name, item |-> NoItem ]
                        [] valid = "False" ->
                             TryPatterns(line, k + 1, item_name, re_is_global)
                        [] valid = "True" ->
                             [ kind |-> "item", item_name |-> item_name,
                               item |-> BuildItem(m.groups) ]

\* _extract_pharma_item(line)
ExtractPharmaItem(line) == TryPatterns(line, 1, << >>, ReIsGlobal)

\* ------------------------------------------------------------------------
\* Deduplication and the cap of _parse_pharmaceutical_data
\* ------------------------------------------------------------------------

\* (the name as it is written)
NameKeyAsWritten(item) == item.itemName

\* item.get('itemName', '').upper().strip()
NameKey(item) == Strip(Upper(item.itemName))

\* The loop over pharma_items: keeps an item when its key is non-empty and
\* was not seen before.
RECURSIVE UniqueFrom(_, _, _)
UniqueFrom(items, i, seen_names) ==
    IF i > Len(items) THEN << >>
    ELSE LET name_key == NameKey(items[i])
         IN  IF name_key # << >> /\ name_key \notin seen_names
             THEN << items[i] >> \o UniqueFrom(items, i + 1, seen_names \cup { name_key })
             ELSE UniqueFrom(items, i + 1, seen_names)

UniqueItems(items) == UniqueFrom(items, 1, {})

\* The most items returned
ItemLimit == 50

\* unique_items[:50]
Limit(items) == SubSeq(items, 1, IF Len(items) < ItemLimit THEN Len(items) ELSE ItemLimit)

\* ------------------------------------------------------------------------
\* Line filter
\* ------------------------------------------------------------------------

\* A text whose stripped length is 8 and whose raw length is 14
TxtPadded ==
    << " ", " ", "A", "B", "C", "D", " ", "1", " ", "2", " ", " ", " ", "\n" >>

\* A text of exactly 10 characters
TxtTen ==
    << "A", "B", "C", "D", " ", "1", " ", "2", " ", "3" >>

\* 11 characters, no line of which matches a pattern
TxtProse ==
    << "h", "e", "l", "l", "o", " ", "w", "o", "r", "l", "d" >>

\* A header line with trailing numbers
TxtHeader ==
    << "I", "T", "E", "M", " ", "N", "A", "M", "E", " ", "O", "P", "E", "N",
           "I", "N", "G", " ", "Q", "T", "Y", " ", "1", " ", "2", " ", "3",
           " ", "4", " ", "5", " ", "6" >>

\* A line whose name group strips to two characters
TxtShortName ==
    << "A", "B", " ", " ", " ", " ", "1", " ", "2", " ", "3", " ", "4", " ",
           "5", " ", "6" >>

\* A line that matches nothing, a line whose name is too short, a data line, a last line
TxtMixed ==
    << "n", "o", " ", "m", "a", "t", "c", "h", " ", "h", "e", "r", "e", "\n",
           "X", "Y", " ", " ", " ", " ", "1", " ", "2", " ", "3", " ", "4",
           " ", "5", " ", "6", "\n", "C", "R", "O", "C", "I", "N", " ", "6",
           "5", "0", " ", " ", " ", "7", " ", "0", " ", "1", " ", "2", " ",
           "3", ".", "5", " ", "4", " ", "5", ".", "2", "5", "\n", "l", "a",
           "s", "t", " ", "l", "i", "n", "e" >>

\* The same medicine on two lines
TxtTwice ==
    << "C", "R", "O", "C", "I", "N", " ", "6", "5", "0", " ", "1", " ", "2",
           " ", "3", " ", "4", " ", "5", " ", "6", " ", "7", "\n", "C", "R",
           "O", "C", "I", "N", " ", "6", "5", "0", " ", "9", " ", "9", " ",
           "9", " ", "9", " ", "9", " ", "9", " ", "9" >>

\* The header keywords of _parse_pharmaceutical_data
HeaderKeywords ==
    { << "I", "T", "E", "M" >>,
      << "N", "A", "M", "E" >>,
      << "M", "E", "D", "I", "C", "I", "N", "E" >>,
      << "D", "R", "U", "G" >>,
      << "S", ".", "N", "O" >>,
      << "S", "R", ".", "N", "O" >>,
      << "O", "P", "E", "N", "I", "N", "G" >>,
      << "P", "U", "R", "C", "H", "A", "S", "E" >>,
      << "S", "A", "L", "E", "S" >>,
      << "C", "L", "O", "S", "I", "N", "G" >>,
      << "Q", "T", "Y" >>,
      << "Q", "U", "A", "N", "T", "I", "T", "Y" >> }

\* A line the loop skips before any pattern is tried: empty or shorter than
\* 5 characters after strip(), or holding a header keyword.
IsSkippedLine(line) ==
    LET s == Strip(line)
    IN  \/ Len(s) < 5
        \/ \E header \in HeaderKeywords : Contains(Upper(s), header)

\* ------------------------------------------------------------------------
\* Inputs: lines of the form name, whitespace, seven numbers
\* ------------------------------------------------------------------------

NamePara ==
    << "P", "A", "R", "A", "C", "E", "T", "A", "M", "O", "L", " ", "5", "0",
       "0", "M", "G" >>

NameDolo == << "D", "O", "L", "O", " ", "6", "5", "0" >>

FieldNames == { NamePara, NameDolo }

FieldSeps == { << " " >>, << " ", " ", " " >> }

NumsSample ==
    << << "1", "0" >>, << "2", "0" >>, << "5" >>, << "1", "5" >>,
       << "1", "5", "0", ".", "5", "0" >>, << "1", "0" >>,
       << "1", "0", "0", ".", "2", "5" >> >>

NumsOther ==
    << << "7" >>, << "3" >>, << "1" >>, << "2" >>, << "3", ".", "5" >>,
       << "4" >>, << "5", ".", "2", "5" >> >>

FieldVectors == { NumsSample, NumsOther }

\* name, whitespace, n1 .. n7 separated by one space
FieldLine(name, sep, nums) == name \o sep \o JoinWith(nums, << " " >>)

FieldLines ==
    { FieldLine(name, sep, nums) :
        name \in FieldNames, sep \in FieldSeps, nums \in FieldVectors }

\* "PARACETAMOL 500MG   10 20 5 15 150.50 10 100.25"
TxtSample == FieldLine(NamePara, << " ", " ", " " >>, NumsSample)

\* ------------------------------------------------------------------------
\* The provider: what the calls of the external library may return
\* ------------------------------------------------------------------------

\* Texts extract_markdown, extract_text and extract_html may return. The
\* empty text stands for every falsy value (None, "").
ProviderTexts ==
    { << >>, TxtPadded, TxtTen, TxtProse, TxtHeader, TxtShortName, TxtMixed, TxtTwice }
        \cup FieldLines

KeyRate == << "r", "a", "t", "e" >>

\* Values extract_data may return: None, an empty dict, dicts of strings, a
\* list (truthy, no dict) and an object json.dumps cannot serialise.
DataNone == [ kind |-> "none", pairs |-> << >> ]

DataEmptyDict == [ kind |-> "dict", pairs |-> << >> ]

DataDict ==
    [ kind |-> "dict",
      pairs |-> << << KeyRate, << "1", "2" >> >>, << << "m", "r", "p" >>, NameDolo >> >> ]

DataList == [ kind |-> "list", pairs |-> << << << >>, << "1" >> >> >> ]

DataObject == [ kind |-> "object", pairs |-> << >> ]

ProviderData == { DataNone, DataEmptyDict, DataDict, DataList, DataObject }

\* bool(value)
Truthy(d) == d.kind = "object" \/ (d.kind \in { "dict", "list" } /\ d.pairs # << >>)

\* isinstance(value, dict)
IsDict(d) == d.kind = "dict"

\* json.dumps raises TypeError
Unserialisable(d) == d.kind = "object"

\* (a test of truth alone, without isinstance)
UsableMappingAnyTruthy(d) == Truthy(d)

\* structured_data and isinstance(structured_data, dict)
UsableMapping(d) == Truthy(d) /\ IsDict(d)

Quote(s) == << "\"" >> \o s \o << "\"" >>

\* One entry of the indented output: '  "key": "value"' or '  value'
JsonEntry(d, p) ==
    << " ", " " >> \o
        (IF d.kind = "dict" THEN Quote(p[1]) \o << ":", " " >> \o Quote(p[2]) ELSE p[2])

\* json.dumps(value, indent=2)
JsonDumps(d) ==
    IF d.kind = "none" THEN << "n", "u", "l", "l" >>
    ELSE LET open  == IF d.kind = "dict" THEN "{" ELSE "["
             close == IF d.kind = "dict" THEN "}" ELSE "]"
         IN  IF d.pairs = << >> THEN << open, close >>
             ELSE << open, "\n" >>
                  \o JoinWith([ i \in DOMAIN d.pairs |-> JsonEntry(d, d.pairs[i]) ],
                              << ",", "\n" >>)
                  \o << "\n", close >>

\* ------------------------------------------------------------------------
\* State
\* ------------------------------------------------------------------------

VARIABLES
    pc,            \* where the process is
    argv,          \* sys.argv[1:]
    file,          \* the file at file_path: whether it exists, its size in bytes
    mode,          \* self.mode
    calls,         \* the calls made to the provider, in order
    attempts,      \* the extraction methods invoked so far and what each gave
    method_idx,    \* the position of the loop over methods
    structured,    \* the calls of _extract_structured_data and what it returned
    extracted,     \* what _try_extraction_methods returned
    lines,         \* text.split('\n')
    line_num,      \* the position of the loop over lines
    pharma_items,  \* the items matched so far
    item_name,     \* the local item_name of the last _extract_pharma_item
    groups,        \* the groups of a match (SpecItem)
    result,        \* what extract_pharmaceutical_data returned
    stdout,        \* the documents printed to standard output
    exit_code      \* the exit status, -1 while the process runs

vars ==
    << pc, argv, file, mode, calls, attempts, method_idx, structured, extracted, lines,
       line_num, pharma_items, item_name, groups, result, stdout, exit_code >>

\* ------------------------------------------------------------------------
\* Results
\* ------------------------------------------------------------------------

NoText == << >>

\* {"success": False, "error": ...}: error is the message's fixed part,
\* detail what is formatted into it.
Failure(error, detail) ==
    [ success |-> FALSE, error |-> error, detail |-> detail, data |-> << >>,
      mode |-> "", extracted_text_length |-> 0, text_preview |-> NoText ]

\* text[:200] + "..." if len(text) > 200 else text
Preview(text) ==
    IF Len(text) > 200 THEN SubSeq(text, 1, 200) \o << ".", ".", "." >> ELSE text

\* {"success": True, "data": ..., "mode": ..., ...}
Success(data, m, text) ==
    [ success |-> TRUE, error |-> "", detail |-> NoText, data |-> data,
      mode |-> m, extracted_text_length |-> Len(text), text_preview |-> Preview(text) ]

NoResult == Failure("(none)", NoText)

NotExtracted == [ success |-> FALSE, text |-> NoText, method |-> << >>, error |-> "" ]

\* A call of extract_data: not made, raised, or returned value
NotCalled == [ state |-> "not called", value |-> DataNone ]

Raised == [ state |-> "raised", value |-> DataNone ]

Returned(d) == [ state |-> "returned", value |-> d ]

NotStructured ==
    [ specific |-> NotCalled, fallback |-> NotCalled, returned |-> FALSE,
      output |-> NoText ]

\* The path given on the command line
ThePath == << "r", ".", "p", "d", "f" >>

TheKey == << "k", "e", "y" >>

\* The size limit in megabytes
MaxFileMB == 50

BytesPerMB == 1024 * 1024

\* (the size in whole megabytes, size // (1024 * 1024))
TooLargeWholeMB(size) == size \div BytesPerMB > MaxFileMB

\* file_size_mb > 50, for file_size_mb = size / (1024 * 1024)
TooLarge(size) == size > MaxFileMB * BytesPerMB

Files ==
    { [ exists |-> FALSE, size |-> 0 ],
      [ exists |-> TRUE, size |-> 4096 ],
      [ exists |-> TRUE, size |-> MaxFileMB * BytesPerMB ],
      [ exists |-> TRUE, size |-> MaxFileMB * BytesPerMB + 1 ] }

Argvs == { << >>, << ThePath >>, << ThePath, << >> >>, << ThePath, TheKey >> }

\* ------------------------------------------------------------------------
\* The process
\* ------------------------------------------------------------------------

Init ==
    /\ pc = "import"
    /\ argv \in Argvs
    /\ file \in Files
    /\ mode = ""
    /\ calls = << >>
    /\ attempts = << >>
    /\ method_idx = 0
    /\ structured = NotStructured
    /\ extracted = NotExtracted
    /\ lines = << >>
    /\ line_num = 0
    /\ pharma_items = << >>
    /\ item_name = << >>
    /\ groups = << >>
    /\ result = NoResult
    /\ stdout = << >>
    /\ exit_code = -1

\* (sys.exit(1) ahead of the print)
ExitBeforePrint(doc, code) ==
    /\ stdout' = IF code = 0 THEN Append(stdout, doc) ELSE stdout
    /\ exit_code' = code
    /\ pc' = "exited"

\* (exit status 1 for every document that reports a failure)
ExitOneOnFailure(doc, code) ==
    /\ stdout' = Append(stdout, doc)
    /\ exit_code' = IF doc.success THEN code ELSE 1
    /\ pc' = "exited"

\* print(json.dumps(doc)), then sys.exit(code) or the end of main
PrintAndExit(doc, code) ==
    /\ stdout' = Append(stdout, doc)
    /\ exit_code' = code
    /\ pc' = "exited"

\* from docstrange import DocumentExtractor, and its ImportError handler
Import ==
    /\ pc = "import"
    /\ \/ /\ pc' = "main"
          /\ UNCHANGED << stdout, exit_code >>
       \/ PrintAndExit(Failure("DocStrange not installed", NoText), 1)
    /\ UNCHANGED << argv, file, mode, calls, attempts, method_idx, structured, extracted,
                    lines, line_num, pharma_items, item_name, groups, result >>

\* main(), up to the try block
Main ==
    /\ pc = "main"
    /\ IF Len(argv) < 1
       THEN PrintAndExit(Failure("Usage", NoText), 1)
       ELSE /\ pc' = "construct"
            /\ UNCHANGED << stdout, exit_code >>
    /\ UNCHANGED << argv, file, mode, calls, attempts, method_idx, structured, extracted,
                    lines, line_num, pharma_items, item_name, groups, result >>

\* api_key = sys.argv[2] if len(sys.argv) > 2 else None
ApiKey == IF Len(argv) > 1 THEN argv[2] ELSE << >>

\* PharmaDataExtractor(api_key): DocumentExtractor(..) returns or raises;
\* __init__ re-raises and main's handler prints and exits with 1.
Construct ==
    /\ pc = "construct"
    /\ \/ /\ mode' = IF ApiKey # << >> THEN "cloud_authenticated" ELSE "cloud_free"
          /\ pc' = "validate"
          /\ UNCHANGED << stdout, exit_code >>
       \/ /\ PrintAndExit(Failure("Extraction failed", NoText), 1)
          /\ UNCHANGED mode
    /\ UNCHANGED << argv, file, calls, attempts, method_idx, structured, extracted,
                    lines, line_num, pharma_items, item_name, groups, result >>

\* extract_pharmaceutical_data: the existence and size checks
ValidateFile ==
    /\ pc = "validate"
    /\ IF ~file.exists
       THEN /\ result' = Failure("File not found", argv[1])
            /\ pc' = "print"
       ELSE IF TooLarge(file.size)
       THEN /\ result' = Failure("File too large", NoText)
            /\ pc' = "print"
       ELSE /\ pc' = "extract"
            /\ UNCHANGED result
    /\ UNCHANGED << argv, file, mode, calls, attempts, method_idx, structured, extracted,
                    lines, line_num, pharma_items, item_name, groups, stdout,
                    exit_code >>

\* result = self.extractor.extract(file_path): returns, or raises into the
\* handler of extract_pharmaceutical_data
CallExtract ==
    /\ pc = "extract"
    /\ calls' = Append(calls, "extract")
    /\ \/ /\ pc' = "methods"
          /\ method_idx' = 1
          /\ UNCHANGED result
       \/ /\ result' = Failure("DocStrange extraction failed", NoText)
          /\ pc' = "print"
          /\ UNCHANGED method_idx
    /\ UNCHANGED << argv, file, mode, attempts, structured, extracted, lines, line_num,
                    pharma_items, item_name, groups, stdout, exit_code >>

\* The methods of _try_extraction_methods, in the order of the list
MethodNames ==
    << << "M", "a", "r", "k", "d", "o", "w", "n" >>,
       << "T", "e", "x", "t" >>,
       << "H", "T", "M", "L" >>,
       << "J", "S", "O", "N", " ", "D", "a", "t", "a" >> >>

\* The provider call behind each of the first three methods
MethodCalls == << "extract_markdown", "extract_text", "extract_html" >>

\* (the length test without strip())
SufficientNoStrip(content) == content # << >> /\ Len(content) > 10

\* extracted_content and len(str(extracted_content).strip()) > 10
Sufficient(content) == content # << >> /\ Len(Strip(content)) > 10

\* Whether the loop over methods ends after method i
LastMethod(i) == i >= Len(MethodNames)

\* The body of the loop over methods once method_func() has returned
\* content or raised: return the success, go on to the next method, or
\* leave the loop and return the failure, which extract_pharmaceutical_data
\* returns as it is.
AfterMethod(raised, content) ==
    /\ attempts' = Append(attempts,
            [ method |-> method_idx, raised |-> raised, content |-> content ])
    /\ IF ~raised /\ Sufficient(content)
       THEN /\ extracted' = [ success |-> TRUE, text |-> content,
                              method |-> Lower(MethodNames[method_idx]), error |-> "" ]
            /\ pc' = "parse"
            /\ UNCHANGED << method_idx, result >>
       ELSE IF LastMethod(method_idx)
       THEN /\ extracted' = [ success |-> FALSE, text |-> NoText, method |-> << >>,
                              error |-> "All extraction methods failed to return sufficient data" ]
            /\ result' = Failure(extracted'.error, NoText)
            /\ pc' = "print"
            /\ UNCHANGED method_idx
       ELSE /\ method_idx' = method_idx + 1
            /\ pc' = "methods"
            /\ UNCHANGED << extracted, result >>

\* One turn of the loop for Markdown, Text or HTML
TryMethod ==
    /\ pc = "methods"
    /\ method_idx \in 1..3
    /\ calls' = Append(calls, MethodCalls[method_idx])
    /\ \/ AfterMethod(TRUE, NoText)
       \/ \E content \in ProviderTexts : AfterMethod(FALSE, content)
    /\ UNCHANGED << argv, file, mode, structured, lines, line_num, pharma_items,
                    item_name, groups, stdout, exit_code >>

\* _extract_structured_data returns output to the loop over methods
StructuredReturns(specific, fallback, output) ==
    /\ structured' = [ specific |-> specific, fallback |-> fallback,
                       returned |-> TRUE, output |-> output ]
    /\ AfterMethod(FALSE, output)

\* The turn of the loop for JSON Data: _extract_structured_data asks for the
\* pharmaceutical fields. An exception is caught by the function's handler,
\* which returns "".
SpecificFields ==
    /\ pc = "methods"
    /\ method_idx = 4
    /\ calls' = Append(calls, "extract_data(specified_fields)")
    /\ \/ StructuredReturns(Raised, NotCalled, NoText)
       \/ \E d \in ProviderData :
            IF UsableMapping(d)
            THEN StructuredReturns(Returned(d), NotCalled, JsonDumps(d))
            ELSE /\ structured' = [ structured EXCEPT !.specific = Returned(d) ]
                 /\ pc' = "fallback"
                 /\ UNCHANGED << attempts, method_idx, extracted, result >>
    /\ UNCHANGED << argv, file, mode, lines, line_num, pharma_items,
                    item_name, groups, stdout, exit_code >>

\* The else branch: result.extract_data() and its serialisation. An
\* exception of the call or of json.dumps is caught and "" returned.
Fallback ==
    /\ pc = "fallback"
    /\ calls' = Append(calls, "extract_data()")
    /\ \/ StructuredReturns(structured.specific, Raised, NoText)
       \/ \E d \in ProviderData :
            StructuredReturns(structured.specific, Returned(d),
                IF Truthy(d) /\ ~Unserialisable(d) THEN JsonDumps(d) ELSE NoText)
    /\ UNCHANGED << argv, file, mode, lines, line_num, pharma_items,
                    item_name, groups, stdout, exit_code >>

\* _parse_pharmaceutical_data up to its loop: lines = text.split('\n')
ParseStart ==
    /\ pc = "parse"
    /\ lines' = SplitLines(extracted.text)
    /\ line_num' = 1
    /\ pharma_items' = << >>
    /\ pc' = "lines"
    /\ UNCHANGED << argv, file, mode, calls, attempts, method_idx, structured,
                    extracted, item_name, groups, result, stdout, exit_code >>

\* One turn of the loop over lines. The NameError of the validation leaves
\* _extract_pharma_item and _parse_pharmaceutical_data and is caught by the
\* handler of extract_pharmaceutical_data.
ParseLine ==
    /\ pc = "lines"
    /\ line_num <= Len(lines)
    /\ IF IsSkippedLine(lines[line_num])
       THEN /\ line_num' = line_num + 1
            /\ UNCHANGED << pc, pharma_items, item_name, result >>
       ELSE LET item_data == ExtractPharmaItem(Strip(lines[line_num]))
            IN  /\ item_name' = item_data.item_name
                /\ CASE item_data.kind = "raise" ->
                          /\ result' = Failure("DocStrange extraction failed",
                                               << "N", "a", "m", "e", "E", "r", "r", "o", "r" >>)
                          /\ pc' = "print"
                          /\ UNCHANGED << line_num, pharma_items >>
                     [] item_data.kind = "item" ->
                          /\ pharma_items' = Append(pharma_items, item_data.item)
                          /\ line_num' = line_num + 1
                          /\ UNCHANGED << pc, result >>
                     [] item_data.kind = "none" ->
                          /\ line_num' = line_num + 1
                          /\ UNCHANGED << pc, pharma_items, result >>
    /\ UNCHANGED << argv, file, mode, calls, attempts, method_idx, structured,
                    extracted, lines, groups, stdout, exit_code >>

\* After the loop: deduplication, the cap, and the success result of
\* extract_pharmaceutical_data
ParseFinish ==
    /\ pc = "lines"
    /\ line_num > Len(lines)
    /\ result' = Success(Limit(UniqueItems(pharma_items)), mode, extracted.text)
    /\ pc' = "print"
    /\ UNCHANGED << argv, file, mode, calls, attempts, method_idx, structured,
                    extracted, lines, line_num, pharma_items, item_name, groups,
                    stdout, exit_code >>

\* print(json.dumps(result, indent=2)) and the end of main: exit status 0
PrintResult ==
    /\ pc = "print"
    /\ PrintAndExit(result, 0)
    /\ UNCHANGED << argv, file, mode, calls, attempts, method_idx, structured,
                    extracted, lines, line_num, pharma_items, item_name, groups,
                    result >>

Next ==
    \/ Import
    \/ Main
    \/ Construct
    \/ ValidateFile
    \/ CallExtract
    \/ TryMethod
    \/ SpecificFields
    \/ Fallback
    \/ ParseStart
    \/ ParseLine
    \/ ParseFinish
    \/ PrintResult

Spec == Init /\ [][Next]_vars

\* ------------------------------------------------------------------------
\* The item of a match, as a function of the groups
\* ------------------------------------------------------------------------

SeqsUpTo(S, n) == UNION { [ 1..k -> S ] : k \in 0..n }

\* Numerals in the quantity positions: zero, below one, above one
QtyTokens == { << "0" >>, << "0", ".", "5" >>, << "1", "2" >> }

\* Numerals in the value positions: zero, halves of a hundredth that round
\* up and down, and values off the half
ValueTokens ==
    { << "0" >>, << "0", ".", "0", "0", "5" >>, << "0", ".", "1", "2", "5" >>,
      << "0", ".", "3", "7", "5" >>, << "2", ".", "6", "7", "5" >>,
      << "0", ".", "9", "9", "6" >>, << "1", "5", "0", ".", "5", "0" >> }

\* Numerals of a number string
StrTokens == { << "0" >>, << "7", ".", "5" >>, << "0", ".", "9", "9", "6" >> }

\* The groups of a match of pattern 1: the name, six numbers, and a
\* seventh or None
FullGroups ==
    { << NameDolo, q[1], q[2], q[3], q[4], v, q[5], w >> :
        q \in [ 1..5 -> QtyTokens ], v \in ValueTokens, w \in ValueTokens \cup { None } }

\* The groups of a match of pattern 2 or 3: the name and a string of up to
\* MaxNums numbers with blanks or tabs between
StringGroups ==
    { << NameDolo, JoinWith(toks, sep) >> :
        toks \in SeqsUpTo(StrTokens, MaxNums) \ { << >> },
        sep \in { << " " >>, << "\t" >> } }

InitItem ==
    /\ pc = "matched"
    /\ groups \in FullGroups \cup StringGroups
    /\ argv = << ThePath >>
    /\ file = [ exists |-> TRUE, size |-> 4096 ]
    /\ mode = "cloud_free"
    /\ calls = << >>
    /\ attempts = << >>
    /\ method_idx = 0
    /\ structured = NotStructured
    /\ extracted = NotExtracted
    /\ lines = << >>
    /\ line_num = 0
    /\ pharma_items = << >>
    /\ item_name = << >>
    /\ result = NoResult
    /\ stdout = << >>
    /\ exit_code = -1

\* item_name = groups[0].strip() and the statements after the validation:
\* the numbers of the groups and the dictionary returned
BuildStep ==
    /\ pc = "matched"
    /\ item_name' = Strip(groups[1])
    /\ pharma_items' = Append(pharma_items, BuildItem(groups))
    /\ pc' = "built"
    /\ UNCHANGED << argv, file, mode, calls, attempts, method_idx, structured,
                    extracted, lines, line_num, groups, result, stdout, exit_code >>

SpecItem == InitItem /\ [][BuildStep]_vars

\* ------------------------------------------------------------------------
\* Deduplication and cap, as a function of the list of matched items
\* ------------------------------------------------------------------------

\* The name of medicine i, written in capitals, in small letters, or with
\* blanks around it
MedName(i, variant) ==
    LET name == << "M", "E", "D", " ", DigitSeq[(i \div 10) + 1], DigitSeq[(i % 10) + 1] >>
    IN  CASE variant = 0 -> name
          [] variant = 1 -> Lower(name)
          [] variant = 2 -> << " " >> \o name \o << " ", " " >>

\* An item of that name; openingQty tells the items of one name apart
MedItem(name, n) == [ NoItem EXCEPT !.itemName = name, !.openingQty = << n >> ]

\* Lists of n items that run through p medicines again and again, each
\* round in another spelling
CyclicItems(n, p) ==
    [ i \in 1..n |-> MedItem(MedName(((i - 1) % p) + 1, ((i - 1) \div p) % 3), i) ]

\* Every list of up to MaxSmall items over two medicines in three
\* spellings and an item without a name
SmallItems ==
    LET names == { MedName(i, v) : i \in 1..2, v \in 0..2 } \cup { << >> }
        lists == SeqsUpTo(names, MaxSmall)
    IN  { [ i \in DOMAIN l |-> MedItem(l[i], i) ] : l \in lists }

InitDedup ==
    /\ pc = "matched all"
    /\ pharma_items \in SmallItems \cup { CyclicItems(n, p) : n \in 0..MaxItems, p \in 1..MaxItems }
    /\ argv = << ThePath >>
    /\ file = [ exists |-> TRUE, size |-> 4096 ]
    /\ mode = "cloud_free"
    /\ calls = << >>
    /\ attempts = << >>
    /\ method_idx = 0
    /\ structured = NotStructured
    /\ extracted = NotExtracted
    /\ lines = << >>
    /\ line_num = 1
    /\ item_name = << >>
    /\ groups = << >>
    /\ result = NoResult
    /\ stdout = << >>
    /\ exit_code = -1

\* The statements of _parse_pharmaceutical_data after the loop over lines
DedupStep ==
    /\ pc = "matched all"
    /\ result' = Success(Limit(UniqueItems(pharma_items)), mode, NoText)
    /\ pc' = "returned"
    /\ UNCHANGED << argv, file, mode, calls, attempts, method_idx, structured,
                    extracted, lines, line_num, pharma_items, item_name, groups,
                    stdout, exit_code >>

SpecDedup == InitDedup /\ [][DedupStep]_vars

\* ------------------------------------------------------------------------
\* Claims
\* ------------------------------------------------------------------------

C1_Names ==
    << << "m", "a", "r", "k", "d", "o", "w", "n" >>,
       << "t", "e", "x", "t" >>,
       << "h", "t", "m", "l" >>,
       << "j", "s", "o", "n", " ", "d", "a", "t", "a" >> >>

C1_Enough(a) == ~a.raised /\ Len(Strip(a.content)) > 10

C1_Returned == extracted # NotExtracted

\* C1: _try_extraction_methods invokes Markdown, Text, HTML, JSON Data in
\* that order, invokes nothing after a method whose stripped output is
\* longer than 10 characters, returns success with that method's text and
\* lowercased name, goes on after a method that raises or gives too little,
\* and returns the failure exactly when all four gave too little.
C1_FirstSufficientMethod ==
    /\ Len(attempts) <= 4
    /\ \A i \in DOMAIN attempts : attempts[i].method = i
    /\ \A i \in DOMAIN attempts :
         i <= 3 => calls[i + 1] = << "extract_markdown", "extract_text", "extract_html" >>[i]
    /\ \A i \in 1..(Len(attempts) - 1) : ~C1_Enough(attempts[i])
    /\ ~C1_Returned => \A i \in DOMAIN attempts : ~C1_Enough(attempts[i])
    /\ C1_Returned =>
         LET n == Len(attempts)
         IN  IF \E i \in DOMAIN attempts : C1_Enough(attempts[i])
             THEN /\ C1_Enough(attempts[n])
                  /\ extracted = [ success |-> TRUE, text |-> attempts[n].content,
                                   method |-> C1_Names[n], error |-> "" ]
             ELSE /\ n = 4
                  /\ extracted =
                       [ success |-> FALSE, text |-> NoText, method |-> << >>,
                         error |-> "All extraction methods failed to return sufficient data" ]

\* HTML is accepted after Markdown raised and Text gave too little
C1_Witness ==
    /\ C1_Returned
    /\ Len(attempts) = 3
    /\ attempts[1].raised
    /\ ~attempts[2].raised
    /\ extracted.success
    /\ extracted.method = C1_Names[3]

C2_Quantity(n) == << FloatOf(n) \div Thousand >>

C2_Value(n) == << FloatOf(n) \div 10 >>

C2_Expected(name, n) ==
    [ itemName     |-> name,
      openingQty   |-> C2_Quantity(n[1]),
      purchaseQty  |-> C2_Quantity(n[2]),
      purchaseFree |-> C2_Quantity(n[3]),
      salesQty     |-> C2_Quantity(n[4]),
      salesValue   |-> C2_Value(n[5]),
      closingQty   |-> C2_Quantity(n[6]),
      closingValue |-> C2_Value(n[7]) ]

\* C2: for a text that is one line of a valid name, whitespace and seven
\* numbers n1 .. n7, the name taken from the line is that name and the
\* parser yields exactly one item, of that name, with n1 .. n7 in the
\* seven fields in order.
C2_NameAndSevenFields ==
    \A name \in FieldNames, sep \in FieldSeps, nums \in FieldVectors :
        (pc = "print" /\ extracted.success /\ extracted.text = FieldLine(name, sep, nums))
            => /\ item_name = name
               /\ result.success
               /\ result.data = << C2_Expected(name, nums) >>

\* The items of the lines of a text, with the validation doing what it is
\* written to do
RECURSIVE C3_MatchedFrom(_, _)
C3_MatchedFrom(ls, i) ==
    IF i > Len(ls) THEN << >>
    ELSE LET r == IF IsSkippedLine(ls[i])
                  THEN [ kind |-> "none", item_name |-> << >>, item |-> NoItem ]
                  ELSE TryPatterns(Strip(ls[i]), 1, << >>, TRUE)
         IN  (IF r.kind = "item" THEN << r.item >> ELSE << >>) \o C3_MatchedFrom(ls, i + 1)

C3_Matched(text) == C3_MatchedFrom(SplitLines(text), 1)

C3_Key(item) == Strip(Upper(item.itemName))

\* The items whose key is the key of no earlier item
RECURSIVE C3_FirstSeenFrom(_, _)
C3_FirstSeenFrom(items, i) ==
    IF i > Len(items) THEN << >>
    ELSE (IF \E j \in 1..(i - 1) : C3_Key(items[j]) = C3_Key(items[i])
          THEN << >> ELSE << items[i] >>) \o C3_FirstSeenFrom(items, i + 1)

C3_First50(items) == SubSeq(items, 1, IF Len(items) < 50 THEN Len(items) ELSE 50)

\* C3: for every text, _parse_pharmaceutical_data returns the first 50 of
\* the matched items in line order without those whose uppercased, trimmed
\* name is that of an earlier item.
C3_First50Unique ==
    (pc = "print" /\ extracted.success)
        => /\ result.success
           /\ result.data = C3_First50(C3_FirstSeenFrom(C3_Matched(extracted.text), 1))

C4_SameName(a, b) == Strip(Lower(a.itemName)) = Strip(Lower(b.itemName))

\* C4: in every list the parser returns, no two items have names that are
\* equal after trimming and without regard to case, and there are at most
\* 50 items.
C4_UniqueAndCapped ==
    pc = "returned" =>
        /\ Len(result.data) <= 50
        /\ \A i, j \in DOMAIN result.data :
             i < j => ~C4_SameName(result.data[i], result.data[j])

\* More than 50 items with repeated names went in and 50 came out
C4_Witness ==
    /\ pc = "returned"
    /\ Len(pharma_items) > 50
    /\ \E i, j \in DOMAIN pharma_items :
         i < j /\ C4_SameName(pharma_items[i], pharma_items[j])
    /\ Len(result.data) = 50

\* C5: no line makes the parsing fail: once a method's text was accepted,
\* every line is gone through, the item of every line that matches with a
\* valid name is in the output, and the result is a success.
C5_NoLineFailsTheParse ==
    (pc = "print" /\ extracted.success)
        => /\ result.success
           /\ line_num = Len(lines) + 1
           /\ LET matched == C3_Matched(extracted.text)
              IN  \A i \in DOMAIN matched :
                    \E j \in DOMAIN result.data :
                        C3_Key(result.data[j]) = C3_Key(matched[i])

C6_Limit == 50 * 1024 * 1024

C6_BadFile == ~file.exists \/ file.size > C6_Limit

\* C6: with a file that does not exist or is larger than 50MB,
\* extract_pharmaceutical_data returns the failure that says so and neither
\* the provider's extract nor an extraction method is invoked; extract is
\* invoked only with a file that passed both checks.
C6_ChecksBeforeProvider ==
    /\ C6_BadFile =>
         /\ calls = << >>
         /\ attempts = << >>
         /\ structured = NotStructured
         /\ pc \notin { "extract", "methods", "fallback", "parse", "lines" }
         /\ pc = "print" =>
              result = IF ~file.exists THEN Failure("File not found", ThePath)
                       ELSE Failure("File too large", NoText)
         /\ (pc = "exited" /\ result # NoResult) => (~result.success /\ stdout = << result >>)
    /\ calls # << >> => (file.exists /\ file.size <= C6_Limit /\ calls[1] = "extract")

\* A file of one byte more than 50MB was turned away
C6_Witness ==
    /\ pc = "print"
    /\ file.exists
    /\ file.size = C6_Limit + 1
    /\ result.error = "File too large"
    /\ calls = << >>

\* C7: every invocation has printed exactly one document when the process
\* has ended, and none before.
C7_OneDocument ==
    /\ Len(stdout) <= 1
    /\ pc = "exited" <=> Len(stdout) = 1
    /\ pc = "exited" <=> exit_code # -1

\* The process ended with the failure document of main's handler
C7_Witness ==
    /\ pc = "exited"
    /\ Len(stdout) = 1
    /\ stdout[1].error = "Extraction failed"

C8_NoPath == Len(argv) < 1

C8_Escaped == stdout[1].error = "Extraction failed"

C8_ImportFailed == stdout[1].error = "DocStrange not installed"

C8_Structured ==
    result # NoResult =>
        /\ exit_code = 0
        /\ stdout = << result >>
        /\ result.success \/
             result.error \in { "File not found", "File too large",
                                "All extraction methods failed to return sufficient data",
                                "DocStrange extraction failed" }

\* C8 as stated: the exit status is 1 exactly when no path was given or an
\* exception left the construction or the extraction; every result that
\* extract_pharmaceutical_data returns ends in status 0 and its document.
C8_ExitOneOnlyNoPathOrEscape ==
    pc = "exited" =>
        /\ exit_code = 1 <=> (C8_NoPath \/ C8_Escaped)
        /\ exit_code \in { 0, 1 }
        /\ C8_Structured

\* C8 as amended: the exit status is 1 exactly when the import of the
\* provider failed, no path was given, or an exception left the
\* construction or the extraction; every result that
\* extract_pharmaceutical_data returns ends in status 0 and its document.
C8_ExitOneAlsoOnImportFailure ==
    pc = "exited" =>
        /\ exit_code = 1 <=> (C8_ImportFailed \/ C8_NoPath \/ C8_Escaped)
        /\ exit_code \in { 0, 1 }
        /\ C8_Structured

\* An exception caught inside extract_pharmaceutical_data ended in status 0
C8_Witness ==
    /\ pc = "exited"
    /\ exit_code = 0
    /\ ~stdout[1].success
    /\ stdout[1].error = "DocStrange extraction failed"

C9_Unusable(o) ==
    o.state = "returned" /\ ~(o.value.kind = "dict" /\ o.value.pairs # << >>)

C9_Nothing(o) ==
    /\ o.state = "returned"
    /\ \/ o.value.kind = "none"
       \/ o.value.kind \in { "dict", "list" } /\ o.value.pairs = << >>

C9_Failed(o) == o.state = "raised" \/ (o.state = "returned" /\ o.value.kind = "object")

C9_Serialised(o) ==
    (o.state = "returned" /\ ~C9_Nothing(o) /\ ~C9_Failed(o))
        => (structured.output = JsonDumps(o.value) /\ structured.output # << >>)

RECURSIVE C10_Pieces(_, _, _)
C10_Pieces(s, i, cur) ==
    IF i > Len(s) THEN (IF cur = << >> THEN << >> ELSE << cur >>)
    ELSE IF IsSpace(s[i])
    THEN (IF cur = << >> THEN << >> ELSE << cur >>) \o C10_Pieces(s, i + 1, << >>)
    ELSE C10_Pieces(s, i + 1, Append(cur, s[i]))

C10_Written(g) ==
    IF Len(g) >= 7
    THEN SelectSeq(SubSeq(g, 2, Len(g)), LAMBDA t : t # None)
    ELSE C10_Pieces(g[2], 1, << >>)

C10_Fields(item) ==
    << item.openingQty, item.purchaseQty, item.purchaseFree, item.salesQty,
       item.salesValue, item.closingQty, item.closingValue >>

\* C10: each of the seven fields of an item is absent exactly when the
\* field is missing from the line or its parsed value is zero; otherwise
\* it is the value cut to an integer, for a quantity, or a multiple of 0.01
\* no more than 0.005 away from the value, for salesValue and closingValue.
C10_AbsentIffMissingOrZero ==
    pc = "built" =>
        LET written == C10_Written(groups)
            fields  == C10_Fields(pharma_items[1])
        IN  \A k \in 1..7 :
              LET missing == k > Len(written)
                  v       == IF missing THEN 0 ELSE FloatOf(written[k])
              IN  /\ fields[k] = None <=> (missing \/ v = 0)
                  /\ fields[k] # None =>
                       IF k \in { 5, 7 }
                       THEN /\ 10 * fields[k][1] - v <= 5
                            /\ v - 10 * fields[k][1] <= 5
                       ELSE /\ Thousand * fields[k][1] <= v
                            /\ v < Thousand * (fields[k][1] + 1)

\* A quantity below one is there as 0, a value is there rounded up, and the
\* seventh field is missing from the line
C10_Witness ==
    /\ pc = "built"
    /\ Len(groups) = 8
    /\ groups[2] = << "0", ".", "5" >>
    /\ groups[6] = << "0", ".", "9", "9", "6" >>
    /\ groups[8] = None
    /\ pharma_items[1].openingQty = << 0 >>
    /\ pharma_items[1].salesValue = << 100 >>
    /\ pharma_items[1].closingValue = None
====
